---- MODULE Spec2Model ----
(***************************************************************************)
(* Model of ElementsRpcSigner (src/src/signer/node.rs): the Signer backend *)
(* that delegates sign_transaction to an Elements node's wallet through    *)
(* the signrawtransactionwithwallet RPC.                                   *)
(*                                                                         *)
(* Text (Rust &str / String) is a sequence of Unicode code points; its     *)
(* length and slicing are computed on the UTF-8 encoding, as str::len and  *)
(* str indexing do.  Error messages are built character by character so    *)
(* that "the message contains ..." is a substring test.                    *)
(***************************************************************************)
EXTENDS Integers, Sequences, FiniteSets, TLC

----------------------------------------------------------------------------
(* String literals of node.rs, as code points *)

\* "Unsigned transaction hex cannot be empty"
MsgEmpty ==
    <<85, 110, 115, 105, 103, 110, 101, 100, 32, 116, 114, 97, 110, 115, 97, 99, 116, 105, 111, 110, 32, 104, 101, 120, 32, 99, 97, 110, 110, 111, 116, 32, 98, 101, 32, 101, 109, 112, 116, 121>>

\* "Unsigned transaction hex must have even length"
MsgOddLength ==
    <<85, 110, 115, 105, 103, 110, 101, 100, 32, 116, 114, 97, 110, 115, 97, 99, 116, 105, 111, 110, 32, 104, 101, 120, 32, 109, 117, 115, 116, 32, 104, 97, 118, 101, 32, 101, 118, 101, 110, 32, 108, 101, 110, 103, 116, 104>>

\* "Node wallet signing failed: "
MsgRpcFailedPrefix ==
    <<78, 111, 100, 101, 32, 119, 97, 108, 108, 101, 116, 32, 115, 105, 103, 110, 105, 110, 103, 32, 102, 97, 105, 108, 101, 100, 58, 32>>

\* ". Ensure wallet is unlocked and contains required keys."
MsgRpcFailedSuffix ==
    <<46, 32, 69, 110, 115, 117, 114, 101, 32, 119, 97, 108, 108, 101, 116, 32, 105, 115, 32, 117, 110, 108, 111, 99, 107, 101, 100, 32, 97, 110, 100, 32, 99, 111, 110, 116, 97, 105, 110, 115, 32, 114, 101, 113, 117, 105, 114, 101, 100, 32, 107, 101, 121, 115, 46>>

\* "Node signing result missing 'hex' field"
MsgMissingHex ==
    <<78, 111, 100, 101, 32, 115, 105, 103, 110, 105, 110, 103, 32, 114, 101, 115, 117, 108, 116, 32, 109, 105, 115, 115, 105, 110, 103, 32, 39, 104, 101, 120, 39, 32, 102, 105, 101, 108, 100>>

\* "Transaction signing incomplete. The node's wallet may be missing required keys. Errors: "
MsgIncompletePrefix ==
    <<84, 114, 97, 110, 115, 97, 99, 116, 105, 111, 110, 32, 115, 105, 103, 110, 105, 110, 103, 32, 105, 110, 99, 111, 109, 112, 108, 101, 116, 101, 46, 32, 84, 104, 101, 32, 110, 111, 100, 101, 39, 115, 32, 119, 97, 108, 108, 101, 116, 32, 109, 97, 121, 32, 98, 101, 32, 109, 105, 115, 115, 105, 110, 103, 32, 114, 101, 113, 117, 105, 114, 101, 100, 32, 107, 101, 121, 115, 46, 32, 69, 114, 114, 111, 114, 115, 58, 32>>

\* "Unknown errors"
MsgUnknownErrors ==
    <<85, 110, 107, 110, 111, 119, 110, 32, 101, 114, 114, 111, 114, 115>>

\* "hex"
KeyHex ==
    <<104, 101, 120>>

\* "complete"
KeyComplete ==
    <<99, 111, 109, 112, 108, 101, 116, 101>>

\* "errors"
KeyErrors ==
    <<101, 114, 114, 111, 114, 115>>

----------------------------------------------------------------------------
(* Text: str::len, char boundaries, substring search *)

\* tracing::debug! prints at most the first 64 bytes of the text
LogPrefixLen == 64

Min(a, b) == IF a < b THEN a ELSE b

\* char::len_utf8: bytes taken by one code point in a Rust str
Utf8Len(c) ==
    IF c < 128 THEN 1 ELSE IF c < 2048 THEN 2 ELSE IF c < 65536 THEN 3 ELSE 4

RECURSIVE ByteLen(_)
\* str::len: the length in bytes of the UTF-8 encoding
ByteLen(s) == IF s = <<>> THEN 0 ELSE Utf8Len(Head(s)) + ByteLen(Tail(s))

\* str::is_char_boundary
IsCharBoundary(s, k) == \E n \in 0..Len(s) : ByteLen(SubSeq(s, 1, n)) = k

\* &s[..min(s.len(), 64)] panics when byte 64 falls inside a code point
LogSlicePanics(s) == ~IsCharBoundary(s, Min(ByteLen(s), LogPrefixLen))

\* str::contains
Contains(hay, needle) ==
    \E i \in 0..(Len(hay) - Len(needle)) :
        SubSeq(hay, i + 1, i + Len(needle)) = needle

----------------------------------------------------------------------------
(* serde_json::Value *)

JNull == [t |-> "null", v |-> <<>>]
JBool(b) == [t |-> "bool", v |-> b]
JNum(n) == [t |-> "num", v |-> n]
JStr(s) == [t |-> "str", v |-> s]
JArr(a) == [t |-> "arr", v |-> a]
\* an object is its entries <<key, value>> in key order (serde_json's Map)
JObj(m) == [t |-> "obj", v |-> m]

None == [some |-> FALSE, val |-> <<>>]
Some(x) == [some |-> TRUE, val |-> x]

\* Value::get(key): the member of an object, None for any other value
Get(value, key) ==
    IF value.t = "obj" /\ \E i \in 1..Len(value.v) : value.v[i][1] = key
    THEN Some(value.v[CHOOSE i \in 1..Len(value.v) : value.v[i][1] = key][2])
    ELSE None

\* Value::as_str
AsStr(value) == IF value.t = "str" THEN Some(value.v) ELSE None

\* Value::as_bool
AsBool(value) == IF value.t = "bool" THEN Some(value.v) ELSE None

HexDigit(d) == IF d < 10 THEN 48 + d ELSE 87 + d

RECURSIVE DecDigits(_)
DecDigits(n) ==
    IF n < 10 THEN <<48 + n>> ELSE DecDigits(n \div 10) \o <<48 + (n % 10)>>

\* serde_json's string escaping of one code point
EscapeChar(c) ==
    CASE c = 34 -> <<92, 34>>
      [] c = 92 -> <<92, 92>>
      [] c = 8  -> <<92, 98>>
      [] c = 9  -> <<92, 116>>
      [] c = 10 -> <<92, 110>>
      [] c = 12 -> <<92, 102>>
      [] c = 13 -> <<92, 114>>
      [] c < 32 /\ c \notin {8, 9, 10, 12, 13} ->
            <<92, 117, 48, 48, HexDigit(c \div 16), HexDigit(c % 16)>>
      [] OTHER -> <<c>>

RECURSIVE EscapeStr(_)
EscapeStr(s) ==
    IF s = <<>> THEN <<>> ELSE EscapeChar(Head(s)) \o EscapeStr(Tail(s))

Quoted(s) == <<34>> \o EscapeStr(s) \o <<34>>

RECURSIVE ToJson(_), JoinJson(_), JoinMembers(_)
\* serde_json::to_string: the compact serialization of a value
ToJson(value) ==
    CASE value.t = "null" -> <<110, 117, 108, 108>>
      [] value.t = "bool" ->
            IF value.v THEN <<116, 114, 117, 101>>
            ELSE <<102, 97, 108, 115, 101>>
      [] value.t = "num" -> DecDigits(value.v)
      [] value.t = "str" -> Quoted(value.v)
      [] value.t = "arr" -> <<91>> \o JoinJson(value.v) \o <<93>>
      [] value.t = "obj" -> <<123>> \o JoinMembers(value.v) \o <<125>>

JoinJson(a) ==
    IF a = <<>> THEN <<>>
    ELSE ToJson(Head(a))
         \o (IF Len(a) > 1 THEN <<44>> ELSE <<>>) \o JoinJson(Tail(a))

JoinMembers(m) ==
    IF m = <<>> THEN <<>>
    ELSE Quoted(Head(m)[1]) \o <<58>> \o ToJson(Head(m)[2])
         \o (IF Len(m) > 1 THEN <<44>> ELSE <<>>) \o JoinMembers(Tail(m))

----------------------------------------------------------------------------
(* The steps of ElementsRpcSigner::sign_transaction *)

\* Result<String, SignerError>
Ok(text) == [kind |-> "Ok", text |-> text]
Err(kind, text) == [kind |-> kind, text |-> text]
NoResult == [kind |-> "none", text |-> <<>>]

\* Result<serde_json::Value, Error> of ElementsRpc::rpc_call, once awaited
RpcOk(value) == [tag |-> "Ok", value |-> value, error |-> <<>>]
RpcErr(e) == [tag |-> "Err", value |-> JNull, error |-> e]
Pending == [tag |-> "pending", value |-> JNull, error |-> <<>>]

\* ValidateInput without its first check
ValidateInputNoEmptyCheck(unsigned_tx) ==
    IF ByteLen(unsigned_tx) % 2 # 0
    THEN Some(Err("InvalidTransaction", MsgOddLength))
    ELSE None

\* the two checks made before the node is called
ValidateInput(unsigned_tx) ==
    IF ByteLen(unsigned_tx) = 0 THEN Some(Err("InvalidTransaction", MsgEmpty))
    ELSE IF ByteLen(unsigned_tx) % 2 # 0
         THEN Some(Err("InvalidTransaction", MsgOddLength))
         ELSE None

\* self.rpc.rpc_call("signrawtransactionwithwallet", json!([unsigned_tx]))
SignRequest(c, rpc, unsigned_tx) ==
    [call |-> c, rpc |-> rpc, method |-> "signrawtransactionwithwallet",
     params |-> JArr(<<JStr(unsigned_tx)>>)]

\* IssueRequest joining a request already made with the same arguments
IssueRequestShared(reqs, c, rpc, unsigned_tx) ==
    IF \E i \in 1..Len(reqs) :
          /\ reqs[i].rpc = rpc
          /\ reqs[i].params = SignRequest(c, rpc, unsigned_tx).params
    THEN reqs
    ELSE Append(reqs, SignRequest(c, rpc, unsigned_tx))

\* the requests on the wire after call c has issued its own
IssueRequest(reqs, c, rpc, unsigned_tx) ==
    Append(reqs, SignRequest(c, rpc, unsigned_tx))

\* MapRpcErr dropping the transport's error text
MapRpcErrNoDetail(e) ==
    Err("Lwk", MsgRpcFailedPrefix \o MsgRpcFailedSuffix)

\* .map_err(|e| SignerError::Lwk(format!(...)))
MapRpcErr(e) == Err("Lwk", MsgRpcFailedPrefix \o e \o MsgRpcFailedSuffix)

\* serde_json::to_string(v).ok()
ToJsonOk(value) == Some(ToJson(value))

\* ExtractHex taking any value's serialization where as_str is meant
ExtractHexAnyValue(sign_result) ==
    LET v == Get(sign_result, KeyHex)
    IN  IF v.some THEN ToJsonOk(v.val) ELSE None

\* sign_result.get("hex").and_then(|v| v.as_str())
ExtractHex(sign_result) ==
    LET v == Get(sign_result, KeyHex)
    IN  IF v.some THEN AsStr(v.val) ELSE None

\* Complete with unwrap_or(true)
CompleteDefaultTrue(sign_result) ==
    LET v == Get(sign_result, KeyComplete)
        o == IF v.some THEN AsBool(v.val) ELSE None
    IN  IF o.some THEN o.val ELSE TRUE

\* sign_result.get("complete").and_then(|v| v.as_bool()).unwrap_or(false)
Complete(sign_result) ==
    LET v == Get(sign_result, KeyComplete)
        o == IF v.some THEN AsBool(v.val) ELSE None
    IN  IF o.some THEN o.val ELSE FALSE

\* ErrorsText with as_str where to_string is meant
ErrorsTextAsStr(sign_result) ==
    LET v == Get(sign_result, KeyErrors)
        o == IF v.some THEN AsStr(v.val) ELSE None
    IN  IF o.some THEN o.val ELSE MsgUnknownErrors

\* sign_result.get("errors").and_then(|v| to_string(v).ok()).unwrap_or_else(..)
ErrorsText(sign_result) ==
    LET v == Get(sign_result, KeyErrors)
        o == IF v.some THEN ToJsonOk(v.val) ELSE None
    IN  IF o.some THEN o.val ELSE MsgUnknownErrors

\* the part of sign_transaction before the await: where the call stands,
\* what it returned and which steps it ran
BeforeRpc(unsigned_tx, debug) ==
    IF debug /\ LogSlicePanics(unsigned_tx)
    THEN [pc |-> "panicked", result |-> NoResult, path |-> <<"log_unsigned">>]
    ELSE LET bad == ValidateInput(unsigned_tx)
         IN  IF bad.some
             THEN [pc |-> "done", result |-> bad.val,
                   path |-> <<"log_unsigned", "validate">>]
             ELSE [pc |-> "await", result |-> NoResult,
                   path |-> <<"log_unsigned", "validate", "rpc_call">>]

\* the part of sign_transaction after the await
AfterRpc(response, debug) ==
    IF response.tag = "Err"
    THEN [pc |-> "done", result |-> MapRpcErr(response.error),
          path |-> <<"map_err">>]
    ELSE LET hex == ExtractHex(response.value)
         IN  IF ~hex.some
             THEN [pc |-> "done",
                   result |-> Err("InvalidTransaction", MsgMissingHex),
                   path |-> <<"get_hex">>]
             ELSE IF ~Complete(response.value)
             THEN [pc |-> "done",
                   result |-> Err("InvalidTransaction",
                                  MsgIncompletePrefix
                                    \o ErrorsText(response.value)),
                   path |-> <<"get_hex", "get_complete", "get_errors">>]
             ELSE IF debug /\ LogSlicePanics(hex.val)
             THEN [pc |-> "panicked", result |-> NoResult,
                   path |-> <<"get_hex", "get_complete", "log_signed">>]
             ELSE [pc |-> "done", result |-> Ok(hex.val),
                   path |-> <<"get_hex", "get_complete", "log_signed">>]

\* CloneOf rebuilding the handle without its credentials
CloneOfNoCredentials(signer) ==
    [rpc |-> [signer.rpc EXCEPT !.username = "", !.password = ""]]

\* #[derive(Clone)]: the clone holds a copy of the rpc field
CloneOf(signer) == signer

\* the concrete types a &dyn Signer can be downcast to
SignerTypes == {"ElementsRpcSigner", "LwkSoftwareSigner"}

\* as_any returning the rpc field where self is meant
AsAnyRpcField(signer) == [type_id |-> "ElementsRpc", value |-> signer.rpc]

\* as_any(&self) -> &dyn Any: self with the TypeId of its concrete type
AsAny(signer) == [type_id |-> "ElementsRpcSigner", value |-> signer]

\* <dyn Any>::downcast_ref::<T>(): the value when its TypeId is T's
DowncastRef(any, T) == IF any.type_id = T THEN Some(any.value) ELSE None

----------------------------------------------------------------------------
(* Bounds and the values the callers, the node and the transport supply *)

\* concurrent callers of sign_transaction
NumCalls == 2
\* signer handles: the one constructed plus its clones
MaxSigners == 2
\* characters that follow the padding of an input text
MaxTailLen == 2

Calls == 1..NumCalls

\* "ABCD"
TxtABCD ==
    <<65, 66, 67, 68>>

\* "ab"
TxtAb ==
    <<97, 98>>

\* "true"
TxtTrue ==
    <<116, 114, 117, 101>>

\* "error"
KeyError ==
    <<101, 114, 114, 111, 114>>

\* "Unable to sign input"
TxtUnableToSign ==
    <<85, 110, 97, 98, 108, 101, 32, 116, 111, 32, 115, 105, 103, 110, 32, 105, 110, 112, 117, 116>>

\* "operation timed out"
TxtTimeout ==
    <<111, 112, 101, 114, 97, 116, 105, 111, 110, 32, 116, 105, 109, 101, 100, 32, 111, 117, 116>>

\* "401 Unauthorized"
TxtUnauthorized ==
    <<52, 48, 49, 32, 85, 110, 97, 117, 116, 104, 111, 114, 105, 122, 101, 100>>

\* n hex digits "0"
Pad(n) == [i \in 1..n |-> 48]

\* "a" (a hex digit), "z" (not one), U+00E9 (two bytes in UTF-8)
Alphabet == {97, 122, 233}

Tails == UNION {[1..n -> Alphabet] : n \in 0..MaxTailLen}

\* the unsigned_tx arguments: short texts, and texts whose tail starts one
\* byte before or exactly at the 64-byte log prefix
Inputs ==
    {Pad(n) \o t : n \in {0, LogPrefixLen - 1, LogPrefixLen}, t \in Tails}

\* ElementsRpc::new(url, username, password)
Descriptors ==
    {[base_url |-> "http://localhost:18884", username |-> "testuser",
      password |-> "testpass"],
     [base_url |-> "http://localhost:18884", username |-> "user",
      password |-> "pass"]}

Member(key, opt) == IF opt.some THEN << <<key, opt.val>> >> ELSE <<>>

\* a response object with the given optional members, in key order
Object(hex, complete, errors) ==
    JObj(Member(KeyComplete, complete) \o Member(KeyErrors, errors)
         \o Member(KeyHex, hex))

HexTexts ==
    {TxtABCD, Pad(LogPrefixLen - 1) \o <<233>>, Pad(LogPrefixLen) \o <<233>>}

HexFields == {None, Some(JNum(5))} \cup {Some(JStr(h)) : h \in HexTexts}

CompleteFields ==
    {None, Some(JBool(TRUE)), Some(JBool(FALSE)), Some(JStr(TxtTrue))}

ErrorsFields ==
    {None, Some(JNull),
     Some(JArr(<<JObj(<< <<KeyError, JStr(TxtUnableToSign)>> >>)>>))}

\* Display texts of the transport's errors
RpcErrors == {TxtTimeout, TxtUnauthorized}

\* what awaiting rpc_call can yield
Responses ==
    {RpcErr(e) : e \in RpcErrors}
    \cup {RpcOk(JNull)}
    \cup {RpcOk(Object(h, c, e)) :
            h \in HexFields, c \in CompleteFields, e \in ErrorsFields}

\* the smaller sets used when several callers run at once
ConcInputs == {<<>>, TxtAb, Pad(LogPrefixLen - 1) \o <<233, 97>>}

ConcResponses ==
    {RpcErr(TxtTimeout),
     RpcOk(Object(Some(JStr(TxtABCD)), Some(JBool(TRUE)), None)),
     RpcOk(Object(Some(JStr(TxtABCD)), Some(JBool(FALSE)), None))}

----------------------------------------------------------------------------
(* State *)

VARIABLES
    debugEnabled,  \* whether tracing::debug! evaluates its arguments
    signers,       \* the ElementsRpcSigner handles, signers[1] the original
    requests,      \* the RPC requests issued so far, in order
    pc,            \* per call: "idle", "await", "done" or "panicked"
    self,          \* per call: the handle it was made on
    unsigned_tx,   \* per call: its argument
    sign_result,   \* per call: what its awaited rpc_call yielded
    result,        \* per call: what it returned
    path,          \* per call: the steps it ran
    downcast       \* per target type: the last downcast_ref made to it

vars ==
    <<debugEnabled, signers, requests, pc, self, unsigned_tx, sign_result,
      result, path, downcast>>

\* ElementsRpcSigner::new(rpc)
New(rpc) == [rpc |-> rpc]

Init ==
    /\ debugEnabled \in BOOLEAN
    /\ \E d \in Descriptors : signers = <<New(d)>>
    /\ requests = <<>>
    /\ pc = [c \in Calls |-> "idle"]
    /\ self = [c \in Calls |-> 1]
    /\ unsigned_tx = [c \in Calls |-> <<>>]
    /\ sign_result = [c \in Calls |-> Pending]
    /\ result = [c \in Calls |-> NoResult]
    /\ path = [c \in Calls |-> <<>>]
    /\ downcast = [T \in SignerTypes |-> [handle |-> 0, ref |-> None]]

\* signer.clone()
Clone(h) ==
    /\ h \in 1..Len(signers)
    /\ Len(signers) < MaxSigners
    /\ signers' = Append(signers, CloneOf(signers[h]))
    /\ UNCHANGED <<debugEnabled, requests, pc, self, unsigned_tx,
                   sign_result, result, path, downcast>>

\* sign_transaction(&self, unsigned_tx) up to its await
SignBegin(c, h, tx) ==
    /\ pc[c] = "idle"
    /\ h \in 1..Len(signers)
    /\ LET b == BeforeRpc(tx, debugEnabled)
       IN  /\ pc' = [pc EXCEPT ![c] = b.pc]
           /\ result' = [result EXCEPT ![c] = b.result]
           /\ path' = [path EXCEPT ![c] = b.path]
           /\ requests' = IF b.pc = "await"
                          THEN IssueRequest(requests, c, signers[h].rpc, tx)
                          ELSE requests
    /\ self' = [self EXCEPT ![c] = h]
    /\ unsigned_tx' = [unsigned_tx EXCEPT ![c] = tx]
    /\ UNCHANGED <<debugEnabled, signers, sign_result, downcast>>

\* sign_transaction from the completion of its await to its return
SignResume(c, response) ==
    /\ pc[c] = "await"
    /\ LET a == AfterRpc(response, debugEnabled)
       IN  /\ pc' = [pc EXCEPT ![c] = a.pc]
           /\ result' = [result EXCEPT ![c] = a.result]
           /\ path' = [path EXCEPT ![c] = path[c] \o a.path]
    /\ sign_result' = [sign_result EXCEPT ![c] = response]
    /\ UNCHANGED <<debugEnabled, signers, requests, self, unsigned_tx,
                   downcast>>

\* signer.as_any().downcast_ref::<T>() on handle h held as &dyn Signer
Identify(h, T) ==
    /\ h \in 1..Len(signers)
    /\ downcast' = [downcast EXCEPT
                       ![T] = [handle |-> h,
                               ref |-> DowncastRef(AsAny(signers[h]), T)]]
    /\ UNCHANGED <<debugEnabled, signers, requests, pc, self, unsigned_tx,
                   sign_result, result, path>>

\* one caller, one handle, every input and every response
Call == \E tx \in Inputs : SignBegin(1, 1, tx)

Return == \E r \in Responses : SignResume(1, r)

Recover == \E T \in SignerTypes : Identify(1, T)

Next == Call \/ Return \/ Recover

Spec == Init /\ [][Next]_vars

\* several callers on the original and its clones
CloneAny == \E h \in 1..MaxSigners : Clone(h)

CallAny == \E c \in Calls, h \in 1..MaxSigners, tx \in ConcInputs :
              SignBegin(c, h, tx)

ReturnAny == \E c \in Calls, r \in ConcResponses : SignResume(c, r)

NextConc == CloneAny \/ CallAny \/ ReturnAny

SpecConc == Init /\ [][NextConc]_vars

----------------------------------------------------------------------------
(* Properties *)

\* "cannot be empty"
TxtCannotBeEmpty ==
    <<99, 97, 110, 110, 111, 116, 32, 98, 101, 32, 101, 109, 112, 116, 121>>

\* "even length"
TxtEvenLength ==
    <<101, 118, 101, 110, 32, 108, 101, 110, 103, 116, 104>>

\* "missing"
TxtMissing ==
    <<109, 105, 115, 115, 105, 110, 103>>

\* "incomplete"
TxtIncomplete ==
    <<105, 110, 99, 111, 109, 112, 108, 101, 116, 101>>

\* "Ensure wallet is unlocked and contains required keys"
TxtWalletHint ==
    <<69, 110, 115, 117, 114, 101, 32, 119, 97, 108, 108, 101, 116, 32, 105, 115, 32, 117, 110, 108, 111, 99, 107, 101, 100, 32, 97, 110, 100, 32, 99, 111, 110, 116, 97, 105, 110, 115, 32, 114, 101, 113, 117, 105, 114, 101, 100, 32, 107, 101, 121, 115>>

Started(c) == pc[c] # "idle"

\* the positions in requests of the requests issued by call c
RequestsOf(c) == {i \in 1..Len(requests) : requests[i].call = c}

\* C1: a sign_transaction call with the empty string fails with
\* InvalidTransaction whose message contains "cannot be empty", and the call
\* issues no RPC request.
C1_EmptyRejected ==
    \A c \in Calls :
        (Started(c) /\ unsigned_tx[c] = <<>>) =>
            /\ pc[c] = "done"
            /\ result[c].kind = "InvalidTransaction"
            /\ Contains(result[c].text, TxtCannotBeEmpty)
            /\ RequestsOf(c) = {}

C1_Witness ==
    \E c \in Calls :
        pc[c] = "done" /\ unsigned_tx[c] = <<>> /\ result[c].kind # "none"

\* C2: a sign_transaction call with a text of odd length fails with
\* InvalidTransaction whose message contains "even length", without any RPC
\* request having been issued.
C2_OddRejected ==
    \A c \in Calls :
        (Started(c) /\ ByteLen(unsigned_tx[c]) % 2 = 1) =>
            /\ pc[c] = "done"
            /\ result[c].kind = "InvalidTransaction"
            /\ Contains(result[c].text, TxtEvenLength)
            /\ RequestsOf(c) = {}

\* C3: a sign_transaction call with a non-empty text of even length issues
\* exactly one RPC request, named signrawtransactionwithwallet, whose
\* arguments are the one-element array holding the text unchanged, whatever
\* the outcome of the request.
C3_OneRequest ==
    \A c \in Calls :
        (/\ Started(c)
         /\ ByteLen(unsigned_tx[c]) > 0
         /\ ByteLen(unsigned_tx[c]) % 2 = 0) =>
            /\ Cardinality(RequestsOf(c)) = 1
            /\ \A i \in RequestsOf(c) :
                  /\ requests[i].method = "signrawtransactionwithwallet"
                  /\ requests[i].params = JArr(<<JStr(unsigned_tx[c])>>)

\* C4: sign_transaction returns Ok(h) only when its single RPC request
\* succeeded with a response whose hex member is the text h and whose
\* complete member is the boolean true.
C4_OkOnlyWhenComplete ==
    \A c \in Calls :
        result[c].kind = "Ok" =>
            /\ Cardinality(RequestsOf(c)) = 1
            /\ sign_result[c].tag = "Ok"
            /\ Get(sign_result[c].value, KeyHex) = Some(JStr(result[c].text))
            /\ Get(sign_result[c].value, KeyComplete) = Some(JBool(TRUE))

C4_Witness == \E c \in Calls : pc[c] = "done" /\ result[c].kind = "Ok"

\* C5: when the RPC request succeeds with a response whose hex member is a
\* text h and whose complete member is true, sign_transaction returns Ok(h)
\* with h unaltered, whatever the other members of the response.
C5_CompleteReturnsHex ==
    \A c \in Calls :
        LET hex == Get(sign_result[c].value, KeyHex)
        IN  (/\ sign_result[c].tag = "Ok"
             /\ hex.some
             /\ hex.val.t = "str"
             /\ Get(sign_result[c].value, KeyComplete) = Some(JBool(TRUE))) =>
                /\ pc[c] = "done"
                /\ result[c] = Ok(hex.val.v)

\* C6: when the RPC request itself fails, sign_transaction fails with the
\* remote-signing kind of error (SignerError::Lwk, not InvalidTransaction)
\* whose message contains the transport's error text and the explanation that
\* the wallet must be unlocked and contain the required keys; none of the
\* response-parsing steps runs.
C6_RpcFailureMapped ==
    \A c \in Calls :
        sign_result[c].tag = "Err" =>
            /\ pc[c] = "done"
            /\ result[c].kind = "Lwk"
            /\ result[c].kind # "InvalidTransaction"
            /\ Contains(result[c].text, sign_result[c].error)
            /\ Contains(result[c].text, TxtWalletHint)
            /\ \A i \in 1..Len(path[c]) :
                  path[c][i] \notin {"get_hex", "get_complete", "get_errors"}

C6_Witness ==
    \E c \in Calls :
        /\ pc[c] = "done"
        /\ sign_result[c].tag = "Err"
        /\ ByteLen(unsigned_tx[c]) > 0
        /\ Cardinality(RequestsOf(c)) = 1

\* C7: when the RPC request succeeds with a response whose hex member is
\* absent or not a text, sign_transaction fails with InvalidTransaction whose
\* message contains "missing" and "hex", whatever the complete and errors
\* members are; it does not report incomplete signing.
C7_MissingHex ==
    \A c \in Calls :
        LET hex == Get(sign_result[c].value, KeyHex)
        IN  (/\ sign_result[c].tag = "Ok"
             /\ (~hex.some \/ hex.val.t # "str")) =>
                /\ pc[c] = "done"
                /\ result[c].kind = "InvalidTransaction"
                /\ Contains(result[c].text, TxtMissing)
                /\ Contains(result[c].text, KeyHex)
                /\ ~Contains(result[c].text, TxtIncomplete)

C7_Witness ==
    \E c \in Calls :
        /\ pc[c] = "done"
        /\ sign_result[c].tag = "Ok"
        /\ ~Get(sign_result[c].value, KeyHex).some
        /\ Get(sign_result[c].value, KeyComplete) = Some(JBool(FALSE))
        /\ Get(sign_result[c].value, KeyErrors).some

\* C8: when the RPC request succeeds with a response that has a text hex
\* member but whose complete member is false or absent, sign_transaction
\* fails with InvalidTransaction; the message contains the JSON serialization
\* of the errors member when there is one and "Unknown errors" when there is
\* none.
C8_Incomplete ==
    \A c \in Calls :
        LET hex == Get(sign_result[c].value, KeyHex)
            complete == Get(sign_result[c].value, KeyComplete)
            errors == Get(sign_result[c].value, KeyErrors)
        IN  (/\ sign_result[c].tag = "Ok"
             /\ hex.some
             /\ hex.val.t = "str"
             /\ (~complete.some \/ complete = Some(JBool(FALSE)))) =>
                /\ pc[c] = "done"
                /\ result[c].kind = "InvalidTransaction"
                /\ (errors.some =>
                      Contains(result[c].text, ToJson(errors.val)))
                /\ (~errors.some =>
                      Contains(result[c].text, MsgUnknownErrors))

C8_Witness ==
    \E c \in Calls :
        /\ pc[c] = "done"
        /\ sign_result[c].tag = "Ok"
        /\ Get(sign_result[c].value, KeyHex) = Some(JStr(TxtABCD))
        /\ ~Get(sign_result[c].value, KeyComplete).some
        /\ Get(sign_result[c].value, KeyErrors).some
        /\ Get(sign_result[c].value, KeyErrors).val.t = "arr"

Finished(c) == pc[c] \in {"done", "panicked"}

OthersUntouched ==
    \A c \in Calls :
        pc'[c] # pc[c] =>
            \A d \in Calls \ {c} :
                /\ pc'[d] = pc[d]
                /\ self'[d] = self[d]
                /\ unsigned_tx'[d] = unsigned_tx[d]
                /\ sign_result'[d] = sign_result[d]
                /\ result'[d] = result[d]

\* no step changes a handle that exists
HandlesUnchanged ==
    /\ Len(signers') >= Len(signers)
    /\ \A h \in 1..Len(signers) : signers'[h] = signers[h]

\* every call that reached rpc_call has exactly one request of its own, and
\* calls with the same input and the same response ended the same way
CallsSelfContained ==
    /\ \A c \in Calls :
          Cardinality(RequestsOf(c))
              = (IF Contains(path[c], <<"rpc_call">>) THEN 1 ELSE 0)
    /\ \A i \in 1..Len(requests) :
          /\ requests[i].rpc = signers[self[requests[i].call]].rpc
          /\ requests[i].params = JArr(<<JStr(unsigned_tx[requests[i].call])>>)
    /\ \A c1, c2 \in Calls :
          (/\ Finished(c1) /\ Finished(c2)
           /\ unsigned_tx[c1] = unsigned_tx[c2]
           /\ sign_result[c1] = sign_result[c2]) =>
              /\ pc[c1] = pc[c2]
              /\ result[c1] = result[c2]

\* C10: calls of sign_transaction that overlap on one handle are independent:
\* no call changes the handle, each call that reaches the node issues its own
\* request, a step of one call leaves every other call as it was, and how a
\* call ends depends only on its input and the response to its own request.
C10_CallsIndependent ==
    /\ []CallsSelfContained
    /\ [][HandlesUnchanged /\ OthersUntouched]_vars

\* two calls on one handle were in flight together and ended differently
C10_Witness ==
    \E c1, c2 \in Calls :
        /\ c1 # c2
        /\ self[c1] = self[c2]
        /\ unsigned_tx[c1] = unsigned_tx[c2]
        /\ pc[c1] = "await" /\ sign_result[c1] = Pending
        /\ pc[c2] = "done" /\ result[c2].kind = "Ok"
        /\ \E i \in RequestsOf(c1), j \in RequestsOf(c2) : i < j

\* a hexadecimal digit: 0-9, A-F or a-f
IsHexDigit(ch) ==
    \/ (48 <= ch /\ ch <= 57)
    \/ (65 <= ch /\ ch <= 70)
    \/ (97 <= ch /\ ch <= 102)

HasNonHex(s) == \E i \in 1..Len(s) : ~IsHexDigit(s[i])

\* C11: a sign_transaction call with a non-empty text of even length that
\* holds a character that is not a hexadecimal digit fails with a
\* hex-encoding error (HexParse, or an InvalidTransaction) and the text is
\* not forwarded to the node.
C11_NonHexRejected ==
    \A c \in Calls :
        (/\ Started(c)
         /\ ByteLen(unsigned_tx[c]) > 0
         /\ ByteLen(unsigned_tx[c]) % 2 = 0
         /\ HasNonHex(unsigned_tx[c])) =>
            /\ pc[c] = "done"
            /\ result[c].kind \in {"HexParse", "InvalidTransaction"}
            /\ RequestsOf(c) = {}

\* C13: every sign_transaction call ends with a typed result, Ok or a
\* SignerError, and never panics, for every input text and every RPC
\* response, texts longer than 64 bytes with multi-byte characters included.
C13_NeverPanics ==
    \A c \in Calls :
        /\ pc[c] # "panicked"
        /\ pc[c] = "done" =>
              result[c].kind \in {"Ok", "InvalidTransaction", "Lwk"}

\* C12: as_any on an ElementsRpcSigner held as &dyn Signer identifies the
\* remote-delegated backend: downcast_ref to ElementsRpcSigner yields that
\* signer and downcast_ref to LwkSoftwareSigner yields nothing.
C12_DowncastIdentifies ==
    /\ downcast["ElementsRpcSigner"].handle # 0 =>
          /\ downcast["ElementsRpcSigner"].ref.some
          /\ downcast["ElementsRpcSigner"].ref.val
                = signers[downcast["ElementsRpcSigner"].handle]
    /\ downcast["LwkSoftwareSigner"].handle # 0 =>
          ~downcast["LwkSoftwareSigner"].ref.some

C12_Witness ==
    /\ downcast["ElementsRpcSigner"].handle # 0
    /\ downcast["LwkSoftwareSigner"].handle # 0
    /\ downcast["ElementsRpcSigner"].ref.some

====
